---- MODULE Spec2Model ----
(***************************************************************************)
(* Model of manager/src/django/ppl_generator.py: InferenceModel and        *)
(* PipelineGenerator.                                                      *)
(*                                                                         *)
(* Python strings whose characters the code inspects (model expressions,   *)
(* devices, source URIs, parameter values) are sequences of one-character  *)
(* strings.  Fixed stage texts are TLA+ strings copied from the source.    *)
(* An Optional value is a sequence of length at most one: <<>> is None.    *)
(***************************************************************************)
EXTENDS Integers, Sequences, FiniteSets, TLC

VARIABLES
  camera_settings,   \* the camera settings dict handed to PipelineGenerator
  model_config,      \* the model configuration mapping (shared input)
  gen,               \* the PipelineGenerator object: <<>> before construction
  err,               \* the exception raised by the constructor ("" when none)
  out,               \* the value returned by the last generate(): <<>> before
  model_expr,        \* the expression handed to _parse_model_expr
  parsed,            \* what _parse_model_expr returned or raised: <<>> before
  history,           \* the last method called on the generator, and the
                     \* argument of the most recent override_sink (<<>>: none)
  default_params,    \* the class attribute InferenceModel.DEFAULT_PARAMS
  calls              \* the generation calls that share model_config

vars == <<camera_settings, model_config, gen, err, out, model_expr, parsed,
          history, default_params, calls>>

\* ------------------------------------------------------------------ bounds

\* Longest model expression enumerated by SpecParse.
MaxLen == 4

\* Most generate() calls made on one generator whose backend is set.
MaxBackendWrites == 2

\* Generation calls in flight on one model configuration.
NumCalls == 2

\* ------------------------------------------------------------ Python values

Letters ==
  {"a","b","c","d","e","f","g","h","i","j","k","l","m",
   "n","o","p","q","r","s","t","u","v","w","x","y","z",
   "A","B","C","D","E","F","G","H","I","J","K","L","M",
   "N","O","P","Q","R","S","T","U","V","W","X","Y","Z"}

Digits == {"0","1","2","3","4","5","6","7","8","9"}

Whitespace == {" "}

SetMin(S) == CHOOSE x \in S : \A y \in S : x <= y

SetMax(S) == CHOOSE x \in S : \A y \in S : x >= y

\* Python None, str, int/float and bool values of a dict.
PyNone == [t |-> "none", s |-> <<>>, n |-> 0]

PyStr(chars) == [t |-> "str", s |-> chars, n |-> 0]

PyNum(k) == [t |-> "num", s |-> <<>>, n |-> k]

PyBool(b) == [t |-> "bool", s |-> <<>>, n |-> IF b THEN 1 ELSE 0]

\* bool(value)
Truthy(v) ==
  CASE v.t = "none" -> FALSE
    [] v.t = "str" -> v.s # <<>>
    [] OTHER -> v.n # 0

\* dict.get(key, default) on a dict modelled as a function
DictGet(d, key, default) == IF key \in DOMAIN d THEN d[key] ELSE default

\* str.strip(): leading and trailing whitespace removed
Strip(s) ==
  LET idx == {i \in 1..Len(s) : s[i] \notin Whitespace}
  IN IF idx = {} THEN <<>> ELSE SubSeq(s, SetMin(idx), SetMax(idx))

\* str.startswith(prefix)
StartsWith(s, prefix) ==
  Len(s) >= Len(prefix) /\ SubSeq(s, 1, Len(prefix)) = prefix

\* str(n) for a natural number
RECURSIVE IntText(_)
IntText(n) ==
  LET d == <<"0","1","2","3","4","5","6","7","8","9">>
  IN IF n < 10 THEN <<d[n + 1]>> ELSE IntText(n \div 10) \o <<d[(n % 10) + 1]>>

\* ------------------------------------------------- ordered dict (model_params)
\* A dict that is iterated is a sequence of <<key, value>> pairs with distinct
\* keys, in insertion order.

OKeys(d) == {d[i][1] : i \in 1..Len(d)}

OGet(d, key) == LET i == CHOOSE i \in 1..Len(d) : d[i][1] = key IN d[i][2]

\* d[key] = value: an existing key keeps its position, a new key is appended
OSet(d, key, value) ==
  IF key \in OKeys(d)
  THEN [i \in 1..Len(d) |-> IF d[i][1] = key THEN <<key, value>> ELSE d[i]]
  ELSE Append(d, <<key, value>>)

\* d.update(other)
RECURSIVE OUpdate(_, _)
OUpdate(d, other) ==
  IF other = <<>> THEN d
  ELSE OUpdate(OSet(d, other[1][1], other[1][2]), Tail(other))

\* ---------------------------------------------------------- InferenceModel

\* the name pattern without its leading letter: ^[A-Za-z0-9_-]*$
NameOkNoLeadingLetter(model_name) ==
  \A i \in 1..Len(model_name) : model_name[i] \in Letters \cup Digits \cup {"_", "-"}

\* re.match(r'^[A-Za-z][A-Za-z0-9_-]*$', model_name) on a stripped name
NameOk(model_name) ==
  /\ model_name # <<>>
  /\ model_name[1] \in Letters
  /\ \A i \in 2..Len(model_name) : model_name[i] \in Letters \cup Digits \cup {"_", "-"}

\* a split at the last '=' instead of the first
SplitLast(expr) ==
  LET i == SetMax({j \in 1..Len(expr) : expr[j] = "="})
  IN <<SubSeq(expr, 1, i - 1), SubSeq(expr, i + 1, Len(expr))>>

\* model_expr.split('=', 1): the text before the first '=' and the text after it
SplitFirst(expr) ==
  LET i == SetMin({j \in 1..Len(expr) : expr[j] = "="})
  IN <<SubSeq(expr, 1, i - 1), SubSeq(expr, i + 1, Len(expr))>>

\* InferenceModel._parse_model_expr: [err, model_name, device]
_parse_model_expr(expr) ==
  IF \E j \in 1..Len(expr) : expr[j] = "="
  THEN LET parts == SplitFirst(expr)
           model_name == Strip(parts[1])
           device == Strip(parts[2])
       IN IF device = <<>>
          THEN [err |-> "MalformedExpression", model_name |-> <<>>, device |-> <<>>]
          ELSE IF ~NameOk(model_name)
          THEN [err |-> "MalformedExpression", model_name |-> <<>>, device |-> <<>>]
          ELSE [err |-> "", model_name |-> model_name, device |-> <<device>>]
  ELSE LET model_name == Strip(expr)
       IN IF ~NameOk(model_name)
          THEN [err |-> "MalformedExpression", model_name |-> <<>>, device |-> <<>>]
          ELSE [err |-> "", model_name |-> model_name, device |-> <<>>]

\* ------------------------------------------------------------------ strings

CPU == <<"C", "P", "U">>

GPU == <<"G", "P", "U">>

AUTO == <<"A", "U", "T", "O">>

\* PipelineGenerator.models_folder = '/home/pipeline-server/models'
models_folder ==
  <<"/", "h", "o", "m", "e", "/", "p", "i", "p", "e", "l", "i", "n", "e", "-",
    "s", "e", "r", "v", "e", "r", "/", "m", "o", "d", "e", "l", "s">>

\* PipelineGenerator.video_path = '/home/pipeline-server/videos'
video_path ==
  <<"/", "h", "o", "m", "e", "/", "p", "i", "p", "e", "l", "i", "n", "e", "-",
    "s", "e", "r", "v", "e", "r", "/", "v", "i", "d", "e", "o", "s">>

\* str(Path(a) / Path(b)) for a root a and a b without '.', '..' or repeated
\* '/' segments: an absolute b replaces a, an empty b leaves a
PathJoin(a, b) ==
  IF b = <<>> THEN a
  ELSE IF b[1] = "/" THEN b
  ELSE a \o <<"/">> \o b

\* InferenceModel.DEFAULT_PARAMS
DEFAULT_PARAMS ==
  << <<"scheduling-policy", PyStr(<<"l", "a", "t", "e", "n", "c", "y">>)>>,
     <<"batch-size", PyStr(<<"1">>)>>,
     <<"inference-interval", PyStr(<<"1">>)>> >>

\* InferenceModel._set_default_params with the defaults overlaid on the entry
DefaultsLast(params) == OUpdate(params, default_params)

\* InferenceModel._set_default_params: the class attribute as it is when the
\* call reads it, updated with the entry's params
_set_default_params(params) == OUpdate(default_params, params)

\* InferenceModel._resolve_paths
RECURSIVE _resolve_paths(_)
_resolve_paths(params) ==
  IF params = <<>> THEN <<>>
  ELSE LET key == params[1][1]
           value == params[1][2]
           converted == IF key \in {"model", "model_proc"}
                        THEN PyStr(PathJoin(models_folder, value.s))
                        ELSE value
       IN << <<key, converted>> >> \o _resolve_paths(Tail(params))

\* InferenceModel._load_params: [err, params]
_load_params(model_name, config_map) ==
  IF model_name = <<>>
  THEN [err |-> "ModelNotFound", params |-> <<>>]
  ELSE IF model_name \in DOMAIN config_map
  THEN LET config == config_map[model_name]
           color_space == DictGet(DictGet(config, "input-format", <<>>),
                                  "color-space", <<>>)
           input_format == IF color_space # <<>>
                           THEN <<"f", "o", "r", "m", "a", "t", "=">> \o color_space
                           ELSE <<>>
           model_params == _set_default_params(
                             _resolve_paths(DictGet(config, "params", <<>>)))
       IN [err |-> "",
           params |-> << [input_format |-> input_format,
                          model_type |-> DictGet(config, "type", <<>>),
                          model_params |-> model_params] >>]
  ELSE [err |-> "ModelNotFound", params |-> <<>>]

\* _set_target_device writing the device only when the entry has none
SetDeviceIfAbsent(self) ==
  IF self.device # <<>> /\ "device" \notin OKeys(self.params.model_params)
  THEN [self EXCEPT !.params.model_params = OSet(@, "device", PyStr(self.device[1])),
                    !.writes.device = @ + 1]
  ELSE self

\* _set_target_device writing a device whether or not the expression names one
SetDeviceAlways(self) ==
  [self EXCEPT !.params.model_params =
                  OSet(@, "device",
                       PyStr(IF self.device # <<>> THEN self.device[1] ELSE CPU)),
               !.writes.device = @ + 1]

\* InferenceModel._set_target_device; writes counts the assignments made to
\* params['model_params'] after _load_params built it
_set_target_device(self) ==
  IF self.device # <<>>
  THEN [self EXCEPT !.params.model_params = OSet(@, "device", PyStr(self.device[1])),
                    !.writes.device = @ + 1]
  ELSE self

\* InferenceModel.get_target_device
get_target_device(self) == IF self.device # <<>> THEN self.device[1] ELSE CPU

\* InferenceModel._get_inference_element_name: [err, name]
_get_inference_element_name(model_type) ==
  IF model_type = <<"detect">> THEN [err |-> "", name |-> "gvadetect"]
  ELSE IF model_type = <<"classify">> THEN [err |-> "", name |-> "gvaclassify"]
  ELSE [err |-> "UnsupportedModelType", name |-> ""]

\* InferenceModel.__init__: [err, obj]; obj is <<>> when the constructor raised.
\* expr is camera_settings.get('camerachain'): <<>> (None) makes the test
\* '=' in model_expr raise TypeError.
InferenceModel(expr, config_map) ==
  IF expr = <<>> THEN [err |-> "TypeError", obj |-> <<>>]
  ELSE
  LET p == _parse_model_expr(expr[1])
  IN IF p.err # "" THEN [err |-> p.err, obj |-> <<>>]
     ELSE
     LET l == _load_params(p.model_name, config_map)
     IN IF l.err # "" THEN [err |-> l.err, obj |-> <<>>]
        ELSE
        LET self == _set_target_device(
                      [model_name |-> p.model_name, device |-> p.device,
                       params |-> l.params[1], inference_element |-> "",
                       writes |-> [device |-> 0, backend |-> 0]])
            e == _get_inference_element_name(self.params.model_type)
        IN IF e.err # "" THEN [err |-> e.err, obj |-> <<>>]
           ELSE [err |-> "", obj |-> <<[self EXCEPT !.inference_element = e.name]>>]

\* InferenceModel.set_preprocessing_backend
set_preprocessing_backend(self, preprocessing_backend) ==
  IF preprocessing_backend # <<>>
  THEN [self EXCEPT !.params.model_params =
          OSet(@, "pre-process-backend", PyStr(preprocessing_backend)),
                    !.writes.backend = @ + 1]
  ELSE self

\* InferenceModel._format_value: the text of a value in the stage descriptor
_format_value(value) ==
  IF value.t = "str"
     /\ ((\E i \in 1..Len(value.s) : value.s[i] \in {" ", ";", "!"}) \/ value.s = <<>>)
  THEN <<"\"">> \o value.s \o <<"\"">>
  ELSE CASE value.t = "str" -> value.s
         [] value.t = "num" -> IntText(value.n)
         [] value.t = "bool" -> IF value.n = 1 THEN <<"T", "r", "u", "e">>
                                ELSE <<"F", "a", "l", "s", "e">>
         [] OTHER -> <<"N", "o", "n", "e">>

\* A stage descriptor: the stage's fixed text as written in the source, and the
\* values the code formats into it, in order, each as <<name, text>>.
Stage(text, args) == [text |-> text, args |-> args]

\* InferenceModel.serialize: one stage, '<element> k1=v1 k2=v2 ...'
serialize(self) ==
  << Stage(self.inference_element,
           [i \in 1..Len(self.params.model_params) |->
              <<self.params.model_params[i][1],
                _format_value(self.params.model_params[i][2])>>]) >>

\* -------------------------------------------------------- PipelineGenerator

intrinsics_keys == <<"intrinsics_fx", "intrinsics_fy", "intrinsics_cx", "intrinsics_cy">>

dist_coeffs_keys ==
  <<"distortion_k1", "distortion_k2", "distortion_p1", "distortion_p2", "distortion_k3">>

\* PipelineGenerator._parse_source: [err, stages]
_parse_source(source) ==
  IF StartsWith(source, <<"r", "t", "s", "p", ":", "/", "/">>)
  THEN [err |-> "",
        stages |-> << Stage("rtspsrc location={source} latency=200 name=source",
                            << <<"source", source>> >>),
                      Stage("rtph264depay", <<>>),
                      Stage("h264parse", <<>>) >>]
  ELSE IF StartsWith(source, <<"f", "i", "l", "e", ":", "/", "/">>)
  THEN LET filepath == PathJoin(video_path, SubSeq(source, 8, Len(source)))
       IN [err |-> "",
           stages |-> << Stage("multifilesrc loop=TRUE location={filepath} name=source",
                               << <<"filepath", filepath>> >>) >>]
  ELSE IF \/ StartsWith(source, <<"h", "t", "t", "p", ":", "/", "/">>)
          \/ StartsWith(source, <<"h", "t", "t", "p", "s", ":", "/", "/">>)
  THEN [err |-> "",
        stages |-> << Stage("curlhttpsrc location={source} name=source",
                            << <<"source", source>> >>),
                      Stage("multipartdemux", <<>>) >>]
  ELSE [err |-> "UnsupportedSourceScheme", stages |-> <<>>]

\* the number written by a run of decimal digits
RECURSIVE DigitsValue(_)
DigitsValue(s) ==
  IF s = <<>> THEN 0
  ELSE 10 * DigitsValue(SubSeq(s, 1, Len(s) - 1))
       + (CHOOSE k \in 0..9 : IntText(k) = <<s[Len(s)]>>)

\* float(value): <<x>>, or <<>> when float() raises (None, a text that is no
\* number).  Of the texts float() accepts the model draws runs of decimal digits.
Float(value) ==
  CASE value.t = "none" -> <<>>
    [] value.t = "str" ->
         IF value.s # <<>> /\ \A i \in 1..Len(value.s) : value.s[i] \in Digits
         THEN <<DigitsValue(value.s)>>
         ELSE <<>>
    [] OTHER -> <<value.n>>

\* the undistort check without the all-zero test
UndistortNoZeroTest(settings) ==
  IF ~(\A i \in 1..Len(intrinsics_keys) : intrinsics_keys[i] \in DOMAIN settings)
  THEN <<>>
  ELSE IF ~(\A i \in 1..Len(dist_coeffs_keys) : dist_coeffs_keys[i] \in DOMAIN settings)
  THEN <<>>
  ELSE IF \E i \in 1..Len(dist_coeffs_keys) : Float(settings[dist_coeffs_keys[i]]) = <<>>
  THEN <<>>
  ELSE << Stage("cameraundistort settings=cameraundistort0", <<>>) >>

\* PipelineGenerator.add_camera_undistort: the stage list, never an error
add_camera_undistort(settings) ==
  IF ~(\A i \in 1..Len(intrinsics_keys) : intrinsics_keys[i] \in DOMAIN settings)
  THEN <<>>
  ELSE IF ~(\A i \in 1..Len(dist_coeffs_keys) : dist_coeffs_keys[i] \in DOMAIN settings)
  THEN <<>>
  ELSE IF \E i \in 1..Len(dist_coeffs_keys) : Float(settings[dist_coeffs_keys[i]]) = <<>>
  THEN <<>>
  ELSE IF \A i \in 1..Len(dist_coeffs_keys) : Float(settings[dist_coeffs_keys[i]])[1] = 0
  THEN <<>>
  ELSE << Stage("cameraundistort settings=cameraundistort0", <<>>) >>

\* the device rules with surface sharing decided on the inference device alone
DeviceRulesNoDecodeTest(self) ==
  LET inference_device == get_target_device(self.inference_model[1])
      sharing == (inference_device = GPU)
  IN [err |-> "",
      self |-> [self EXCEPT
        !.attrs = @ \cup {"decode", "memory_uses_va_surfaces", "memory_caps",
                          "preprocessing_backend", "post_gpu_inference_conversion"},
        !.decode = << Stage("decodebin3", <<>>) >>,
        !.memory_uses_va_surfaces = sharing,
        !.memory_caps = IF sharing THEN << Stage("video/x-raw(memory:VAMemory)", <<>>) >>
                        ELSE << Stage("video/x-raw", <<>>) >>,
        !.preprocessing_backend =
           IF sharing
           THEN <<"v", "a", "-", "s", "u", "r", "f", "a", "c", "e", "-",
                  "s", "h", "a", "r", "i", "n", "g">>
           ELSE <<>>,
        !.post_gpu_inference_conversion = (inference_device = GPU)]]

\* PipelineGenerator._apply_device_rule_set: [err, self]; when the decode device
\* is rejected nothing has been assigned
_apply_device_rule_set(self) ==
  LET decode_device == DictGet(self.camera_settings, "cv_subsystem", PyStr(AUTO))
      inference_device == get_target_device(self.inference_model[1])
      sharing == (decode_device # PyStr(CPU) /\ inference_device = GPU)
  IN IF decode_device \notin {PyStr(CPU), PyStr(GPU), PyStr(AUTO)}
     THEN [err |-> "UnsupportedDecodeDevice", self |-> self]
     ELSE [err |-> "",
           self |-> [self EXCEPT
             !.attrs = @ \cup {"decode", "memory_uses_va_surfaces", "memory_caps",
                               "preprocessing_backend", "post_gpu_inference_conversion"},
             !.decode =
                IF decode_device = PyStr(CPU)
                THEN << Stage("decodebin force-sw-decoders=true", <<>>),
                        Stage("videoconvert", <<>>) >>
                ELSE IF decode_device = PyStr(GPU)
                THEN << Stage("decodebin3", <<>>), Stage("vapostproc", <<>>) >>
                ELSE << Stage("decodebin3", <<>>) >>,
             !.memory_uses_va_surfaces = sharing,
             !.memory_caps =
                IF sharing THEN << Stage("video/x-raw(memory:VAMemory)", <<>>) >>
                ELSE << Stage("video/x-raw", <<>>) >>,
             !.preprocessing_backend =
                IF sharing
                THEN <<"v", "a", "-", "s", "u", "r", "f", "a", "c", "e", "-",
                       "s", "h", "a", "r", "i", "n", "g">>
                ELSE IF inference_device = GPU
                THEN <<"o", "p", "e", "n", "c", "v">>
                ELSE <<>>,
             !.post_gpu_inference_conversion = (inference_device = GPU)]]

\* The attributes of a PipelineGenerator before __init__ assigns them; attrs
\* names those that exist.
NewGenerator ==
  [attrs |-> {}, camera_settings |-> <<>>, inference_model |-> <<>>,
   input |-> <<>>, decode |-> <<>>, memory_uses_va_surfaces |-> FALSE,
   memory_caps |-> <<>>, preprocessing_backend |-> <<>>,
   post_gpu_inference_conversion |-> FALSE, timestamp |-> <<>>,
   undistort |-> <<>>, adapter |-> <<>>, metadata_conversion |-> <<>>,
   sink |-> <<>>]

\* PipelineGenerator.__init__: [err, obj]; obj is <<>> when the constructor raised
PipelineGenerator(settings, config_map) ==
  LET m == InferenceModel(
             IF "camerachain" \in DOMAIN settings /\ settings["camerachain"].t = "str"
             THEN <<settings["camerachain"].s>> ELSE <<>>,
             config_map)
  IN IF m.err # "" THEN [err |-> m.err, obj |-> <<>>]
     ELSE
     LET src == _parse_source(settings["command"].s)
     IN IF src.err # "" THEN [err |-> src.err, obj |-> <<>>]
        ELSE
        LET self0 == [NewGenerator EXCEPT
                        !.attrs = {"camera_settings", "inference_model", "input"},
                        !.camera_settings = settings,
                        !.inference_model = m.obj,
                        !.input = src.stages]
            r == _apply_device_rule_set(self0)
        IN IF r.err # "" THEN [err |-> r.err, obj |-> <<>>]
           ELSE [err |-> "",
                 obj |-> << [r.self EXCEPT
                   !.attrs = @ \cup {"timestamp", "undistort", "adapter",
                                     "metadata_conversion", "sink"},
                   !.timestamp = << Stage("gvapython class=PostDecodeTimestampCapture function=processFrame module=/home/pipeline-server/user_scripts/gvapython/sscape/sscape_adapter.py name=timesync", <<>>) >>,
                   !.undistort =
                      IF Truthy(DictGet(settings, "undistort", PyNone))
                      THEN add_camera_undistort(settings) ELSE <<>>,
                   !.adapter = << Stage("videoconvert", <<>>),
                                  Stage("video/x-raw,format=BGR", <<>>),
                                  Stage("gvapython class=PostInferenceDataPublish function=processFrame module=/home/pipeline-server/user_scripts/gvapython/sscape/sscape_adapter.py name=datapublisher", <<>>) >>,
                   !.metadata_conversion =
                      << Stage("gvametaconvert add-tensor-data=true name=metaconvert", <<>>) >>,
                   !.sink = << Stage("appsink sync=true", <<>>) >>] >>]

\* override_sink adding the new sink after the one the generator has
OverrideSinkAppend(self, new_sink) ==
  [self EXCEPT !.sink = @ \o << Stage(new_sink, <<>>) >>]

\* PipelineGenerator.override_sink
override_sink(self, new_sink) == [self EXCEPT !.sink = << Stage(new_sink, <<>>) >>]

\* The inference model as generate() serializes it: the backend applied first
WithBackend(self) ==
  IF self.preprocessing_backend # <<>>
  THEN set_preprocessing_backend(self.inference_model[1], self.preprocessing_backend)
  ELSE self.inference_model[1]

\* generate() with the conversion stages placed before metadata conversion
GenerateConversionFirst(self) ==
  [self |-> [self EXCEPT !.inference_model = <<WithBackend(self)>>],
   ret |-> self.input \o self.decode \o self.memory_caps \o self.undistort
           \o self.timestamp \o serialize(WithBackend(self))
           \o << Stage("queue", <<>>) >>
           \o (IF self.post_gpu_inference_conversion
               THEN << Stage("vapostproc", <<>>), Stage("video/x-raw,format=BGRA", <<>>) >>
               ELSE <<>>)
           \o self.metadata_conversion
           \o self.adapter \o self.sink]

\* generate() serializing the model before the backend is applied
GenerateBackendLate(self) ==
  [self |-> [self EXCEPT !.inference_model = <<WithBackend(self)>>],
   ret |-> self.input \o self.decode \o self.memory_caps \o self.undistort
           \o self.timestamp \o serialize(self.inference_model[1])
           \o << Stage("queue", <<>>) >>
           \o self.metadata_conversion
           \o (IF self.post_gpu_inference_conversion
               THEN << Stage("vapostproc", <<>>), Stage("video/x-raw,format=BGRA", <<>>) >>
               ELSE <<>>)
           \o self.adapter \o self.sink]

\* PipelineGenerator.generate: [self, ret]; ret is the list of stages that the
\* code joins with ' ! ', self the generator with the backend written into the
\* inference model's parameters
generate(self) ==
  [self |-> [self EXCEPT !.inference_model = <<WithBackend(self)>>],
   ret |-> self.input \o self.decode \o self.memory_caps \o self.undistort
           \o self.timestamp \o serialize(WithBackend(self))
           \o << Stage("queue", <<>>) >>
           \o self.metadata_conversion
           \o (IF self.post_gpu_inference_conversion
               THEN << Stage("vapostproc", <<>>), Stage("video/x-raw,format=BGRA", <<>>) >>
               ELSE <<>>)
           \o self.adapter \o self.sink]

\* ------------------------------------------------------------------ inputs

EmptyDict == [k \in {} |-> PyNone]

\* A model configuration file: an entry without params, an entry whose params
\* collide with the defaults and name a device and a relative model path, a
\* classify entry that configures its own backend and an absolute path, and an
\* entry of a type the generator does not support.
ModelConfigs ==
  { (<<"d">> :> ("type" :> <<"detect">>))
    @@ (<<"e">> :> (("type" :> <<"detect">>)
                    @@ ("params" :> << <<"model", PyStr(<<"m">>)>>,
                                       <<"device", PyStr(GPU)>>,
                                       <<"batch-size", PyNum(4)>>,
                                       <<"labels", PyStr(<<"a", " ", "b">>)>> >>)))
    @@ (<<"c">> :> (("type" :> <<"classify">>)
                    @@ ("params" :> << <<"pre-process-backend", PyStr(<<"i", "e">>)>>,
                                       <<"model_proc", PyStr(<<"/", "p">>)>>,
                                       <<"inference-interval", PyStr(<<"3">>)>> >>)
                    @@ ("input-format" :> ("color-space" :> <<"B", "G", "R">>))))
    @@ (<<"u">> :> (("type" :> <<"segment">>) @@ ("params" :> <<>>))) }

ExprNames == {<<"d">>, <<"e">>, <<"c">>}

ExprDevices == {GPU, CPU, <<"N", "P", "U">>, <<"G", " ", "0">>}

\* The camerachain values: <<>> is a missing key, <<text>> an expression.
ModelExprs ==
  {<<n>> : n \in ExprNames}
  \cup {<<n \o <<"=">> \o d>> : n \in ExprNames, d \in ExprDevices}
  \cup { <<>>, << <<>> >>, << <<" ", " ">> >>, << <<"=", "G", "P", "U">> >>,
         << <<"d", "=">> >>, << <<"1", "d">> >>, << <<"u">> >>, << <<"z">> >>,
         << <<"z", "=", "G", "P", "U">> >>,
         << <<" ", "e", " ", "=", " ", "G", "P", "U", " ">> >>,
         << <<"d", "=", "G", "=", "1">> >> }

Sources ==
  { <<"r", "t", "s", "p", ":", "/", "/", "h">>,
    <<"f", "i", "l", "e", ":", "/", "/", "v">>,
    <<"h", "t", "t", "p", ":", "/", "/", "h">>,
    <<"u", "s", "b">> }

\* The cv_subsystem values: <<>> is a missing key.
DecodeHints ==
  { <<>>, <<PyStr(CPU)>>, <<PyStr(GPU)>>, <<PyStr(AUTO)>>, <<PyNone>>,
    <<PyStr(<<"N", "P", "U">>)>> }

IntrinsicsSets ==
  { [k \in {"intrinsics_fx", "intrinsics_fy", "intrinsics_cx", "intrinsics_cy"}
       |-> PyNum(1)],
    [k \in {"intrinsics_fy", "intrinsics_cx", "intrinsics_cy"} |-> PyNum(1)],
    [k \in {"intrinsics_fx", "intrinsics_fy", "intrinsics_cx", "intrinsics_cy"}
       |-> IF k = "intrinsics_cy" THEN PyStr(<<"x">>) ELSE PyNum(1)] }

DistKeySet ==
  {"distortion_k1", "distortion_k2", "distortion_p1", "distortion_p2", "distortion_k3"}

DistortionSets ==
  { [k \in DistKeySet |-> IF k = "distortion_k1" THEN PyNum(1) ELSE PyNum(0)],
    [k \in DistKeySet |-> PyNum(0)],
    [k \in DistKeySet |-> PyStr(<<"0">>)],
    [k \in DistKeySet |-> IF k = "distortion_k3" THEN PyStr(<<"2">>) ELSE PyNum(0)],
    [k \in DistKeySet \ {"distortion_p1"} |-> PyNum(1)],
    [k \in DistKeySet |-> IF k = "distortion_k2" THEN PyStr(<<"x">>) ELSE PyNum(1)],
    [k \in DistKeySet |-> IF k = "distortion_k2" THEN PyNone ELSE PyNum(1)] }

\* The undistort flag with the calibration fields: the flag missing or false
\* with a full calibration, the flag set with every calibration drawn.
Calibrations ==
  { [k \in {"intrinsics_fx", "intrinsics_fy", "intrinsics_cx", "intrinsics_cy"}
       |-> PyNum(1)]
    @@ [k \in DistKeySet |-> PyNum(1)] @@ f
      : f \in {EmptyDict, "undistort" :> PyBool(FALSE)} }
  \cup { i @@ d @@ ("undistort" :> PyBool(TRUE))
           : i \in IntrinsicsSets, d \in DistortionSets }

CameraSettings ==
  { ("command" :> PyStr(src))
    @@ (IF e = <<>> THEN EmptyDict ELSE "camerachain" :> PyStr(e[1]))
    @@ (IF h = <<>> THEN EmptyDict ELSE "cv_subsystem" :> h[1])
    @@ cal
      : e \in ModelExprs, src \in Sources, h \in DecodeHints, cal \in Calibrations }

Sinks == {"fakesink", "filesink location=out"}

\* Scheme prefixes of a source: the four the code accepts, an unknown one, a
\* near miss with one '/', an upper-case one, and none.
SourceSchemes ==
  { <<"r", "t", "s", "p", ":", "/", "/">>, <<"f", "i", "l", "e", ":", "/", "/">>,
    <<"h", "t", "t", "p", ":", "/", "/">>, <<"h", "t", "t", "p", "s", ":", "/", "/">>,
    <<"f", "t", "p", ":", "/", "/">>, <<"f", "i", "l", "e", ":", "/">>,
    <<"R", "T", "S", "P", ":", "/", "/">>, <<>> }

\* What follows the scheme: nothing, a name, an absolute path, a relative path
\* with a folder, a host with a path.
SourceRemainders ==
  { <<>>, <<"v">>, <<"/", "v">>, <<"a", "/", "b">>, <<"h", "/", "s">>,
    <<"c", "a", "m", "1", ".", "m", "p", "4">> }

\* Camera settings that differ in the source only.
SourceSettings ==
  { ("command" :> PyStr(scheme \o rest)) @@ ("camerachain" :> PyStr(<<"d">>))
      : scheme \in SourceSchemes, rest \in SourceRemainders }

Alphabet == {"d", "1", "=", " ", "_"}

\* every text over Alphabet of length at most n
RECURSIVE Texts(_)
Texts(n) ==
  IF n = 0 THEN {<<>>}
  ELSE Texts(n - 1) \cup {Append(s, ch) : s \in {x \in Texts(n - 1) : Len(x) = n - 1},
                                           ch \in Alphabet}

\* ----------------------------------------------------------------- actions

Init ==
  /\ camera_settings \in CameraSettings
  /\ model_config \in ModelConfigs
  /\ gen = <<>>
  /\ err = ""
  /\ out = <<>>
  /\ model_expr = <<>>
  /\ parsed = <<>>
  /\ history = [op |-> "", sink_arg |-> <<>>]
  /\ default_params = DEFAULT_PARAMS
  /\ calls = <<>>

\* PipelineGenerator(camera_settings, model_config): the object, or the error
Construct ==
  /\ gen = <<>>
  /\ err = ""
  /\ LET r == PipelineGenerator(camera_settings, model_config)
     IN /\ gen' = r.obj
        /\ err' = r.err
  /\ history' = [history EXCEPT !.op = "__init__"]
  /\ UNCHANGED <<camera_settings, model_config, out, model_expr, parsed,
                 default_params, calls>>

\* generator.override_sink(new_sink)
OverrideSink ==
  /\ gen # <<>>
  /\ \E new_sink \in Sinks :
       /\ gen' = <<override_sink(gen[1], new_sink)>>
       /\ history' = [op |-> "override_sink", sink_arg |-> <<new_sink>>]
  /\ UNCHANGED <<camera_settings, model_config, err, out, model_expr, parsed,
                 default_params, calls>>

\* generator.generate()
Generate ==
  /\ gen # <<>>
  /\ gen[1].inference_model[1].writes.backend < MaxBackendWrites
  /\ LET g == generate(gen[1])
     IN /\ gen' = <<g.self>>
        /\ out' = <<g.ret>>
  /\ history' = [history EXCEPT !.op = "generate"]
  /\ UNCHANGED <<camera_settings, model_config, err, model_expr, parsed,
                 default_params, calls>>

Next == Construct \/ OverrideSink \/ Generate

Spec == Init /\ [][Next]_vars

\* A call of _parse_model_expr alone, on every text up to MaxLen characters.
InitParse ==
  /\ camera_settings = EmptyDict
  /\ model_config \in ModelConfigs
  /\ gen = <<>>
  /\ err = ""
  /\ out = <<>>
  /\ model_expr \in Texts(MaxLen)
  /\ parsed = <<>>
  /\ history = [op |-> "", sink_arg |-> <<>>]
  /\ default_params = DEFAULT_PARAMS
  /\ calls = <<>>

Parse ==
  /\ parsed = <<>>
  /\ parsed' = <<_parse_model_expr(model_expr)>>
  /\ UNCHANGED <<camera_settings, model_config, gen, err, out, model_expr,
                 history, default_params, calls>>

NextParse == Parse

SpecParse == InitParse /\ [][NextParse]_vars

\* Generation calls on camera settings that differ in the source only.
InitSource ==
  /\ camera_settings \in SourceSettings
  /\ model_config \in ModelConfigs
  /\ gen = <<>>
  /\ err = ""
  /\ out = <<>>
  /\ model_expr = <<>>
  /\ parsed = <<>>
  /\ history = [op |-> "", sink_arg |-> <<>>]
  /\ default_params = DEFAULT_PARAMS
  /\ calls = <<>>

SpecSource == InitSource /\ [][Next]_vars

\* ---------------------------------------------------- calls sharing a config

\* Camera settings of calls that differ in expression, explicit device and,
\* through the decode hint, in the backend the device rules choose.
SharedSettings ==
  { (("command" :> PyStr(<<"r", "t", "s", "p", ":", "/", "/", "h">>))
     @@ ("camerachain" :> PyStr(expr))) @@ hint
      : expr \in { <<"d">>, <<"d", "=", "G", "P", "U">>, <<"e">>,
                   <<"e", "=", "C", "P", "U">>, <<"c", "=", "G", "P", "U">>,
                   <<"u">> },
        hint \in { EmptyDict, "cv_subsystem" :> PyStr(CPU) } }

\* A call of generate_pipeline_string_from_dict that has not started.
NewCall(settings) ==
  [settings |-> settings, pc |-> "new", gen |-> <<>>, err |-> "", ret |-> <<>>]

\* _set_default_params building its result in the class attribute itself
DefaultParamsItself == "DEFAULT_PARAMS"

\* The dict object _set_default_params returns, which params['model_params']
\* names from then on: self.DEFAULT_PARAMS.copy() is a dict of the call's own.
DefaultParamsCopy == "copy"

\* The generator of call i with params['model_params'] read through the
\* object it names.
GeneratorOf(i) ==
  IF DefaultParamsCopy = "copy" THEN calls[i].gen[1]
  ELSE [calls[i].gen[1] EXCEPT
          !.inference_model = << [@[1] EXCEPT !.params.model_params = default_params] >>]

\* The class attribute after a call left model_params in its inference model:
\* untouched when the call's dict is a copy.
DefaultParamsAfter(obj) ==
  IF obj # <<>> /\ DefaultParamsCopy # "copy"
  THEN obj[1].inference_model[1].params.model_params
  ELSE default_params

InitShared ==
  /\ camera_settings = EmptyDict
  /\ model_config \in ModelConfigs
  /\ gen = <<>>
  /\ err = ""
  /\ out = <<>>
  /\ model_expr = <<>>
  /\ parsed = <<>>
  /\ history = [op |-> "", sink_arg |-> <<>>]
  /\ default_params = DEFAULT_PARAMS
  /\ calls \in [1..NumCalls -> {NewCall(settings) : settings \in SharedSettings}]

\* Call i runs PipelineGenerator(form_data_dict, model_config).
CallConstruct(i) ==
  /\ calls[i].pc = "new"
  /\ LET r == PipelineGenerator(calls[i].settings, model_config)
     IN /\ calls' = [calls EXCEPT ![i].pc = IF r.err = "" THEN "built" ELSE "failed",
                                  ![i].gen = r.obj,
                                  ![i].err = r.err]
        /\ default_params' = DefaultParamsAfter(r.obj)
  /\ UNCHANGED <<camera_settings, model_config, gen, err, out, model_expr,
                 parsed, history>>

\* Call i runs generate() on its generator and returns the descriptor.
CallGenerate(i) ==
  /\ calls[i].pc = "built"
  /\ LET g == generate(GeneratorOf(i))
     IN /\ calls' = [calls EXCEPT ![i].pc = "done",
                                  ![i].gen = <<g.self>>,
                                  ![i].ret = <<g.ret>>]
        /\ default_params' = DefaultParamsAfter(<<g.self>>)
  /\ UNCHANGED <<camera_settings, model_config, gen, err, out, model_expr,
                 parsed, history>>

NextShared == \E i \in 1..NumCalls : CallConstruct(i) \/ CallGenerate(i)

SpecShared == InitShared /\ [][NextShared]_vars

\* ------------------------------------------------------------------ claims

\* The constructor has returned or raised.
Done == gen # <<>> \/ err # ""

\* The stages of a descriptor whose text is one of the two inference elements.
InferenceStages(descriptor) ==
  SelectSeq(descriptor, LAMBDA st : st.text \in {"gvadetect", "gvaclassify"})

\* The values a stage formats under one name.
ArgsNamed(stage, name) == SelectSeq(stage.args, LAMBDA a : a[1] = name)

ConversionStages ==
  << Stage("vapostproc", <<>>), Stage("video/x-raw,format=BGRA", <<>>) >>

\* C1: every descriptor generate() returns is the source stages, the decode
\* stages, the memory-capability marker, the undistort stage when there is one,
\* the timestamp stage, the inference stage, the queue, metadata conversion, the
\* two conversion stages when post_gpu_inference_conversion is set, the adapter
\* stages and one sink, in this order and each group once.
C1_StageOrder ==
  out # <<>> =>
    LET g == gen[1]
        d == out[1]
    IN /\ Len(g.input) >= 1 /\ Len(g.decode) >= 1 /\ Len(g.memory_caps) = 1
       /\ Len(g.undistort) <= 1 /\ Len(g.timestamp) = 1 /\ Len(g.adapter) = 3
       /\ Len(g.metadata_conversion) = 1
       /\ Len(InferenceStages(d)) = 1
       /\ d = g.input \o g.decode \o g.memory_caps \o g.undistort \o g.timestamp
              \o InferenceStages(d) \o << Stage("queue", <<>>) >>
              \o g.metadata_conversion
              \o (IF g.post_gpu_inference_conversion THEN ConversionStages ELSE <<>>)
              \o g.adapter \o << d[Len(d)] >>
       /\ d[Len(d)].text \in {"appsink sync=true"} \cup Sinks

\* C1 witness: a descriptor with the undistort stage, the conversion stages and
\* an overridden sink.
C1_Witness ==
  /\ out # <<>>
  /\ gen[1].undistort # <<>>
  /\ gen[1].post_gpu_inference_conversion
  /\ out[1][Len(out[1])].text = "fakesink"

\* The decode device and the inference device the device rules read.
DecodeDevice == DictGet(camera_settings, "cv_subsystem", PyStr(AUTO))

ValidDecodeDevices == {PyStr(CPU), PyStr(GPU), PyStr(AUTO)}

VaSurfaceSharing ==
  <<"v", "a", "-", "s", "u", "r", "f", "a", "c", "e", "-", "s", "h", "a", "r", "i", "n", "g">>

\* C2: for a decode device of CPU, GPU or AUTO and any inference device the
\* device rules succeed with surface sharing = (decode # CPU and inference =
\* GPU); with surface sharing the memory marker is the VA-surface marker and the
\* backend va-surface-sharing, otherwise the marker is raw and the backend is
\* opencv for a GPU inference device and empty for any other; the conversion
\* flag is (inference = GPU).
C2_DeviceDecision ==
  /\ err = "UnsupportedDecodeDevice" => DecodeDevice \notin ValidDecodeDevices
  /\ gen # <<>> =>
       LET g == gen[1]
           inference == get_target_device(g.inference_model[1])
           sharing == DecodeDevice # PyStr(CPU) /\ inference = GPU
       IN /\ DecodeDevice \in ValidDecodeDevices
          /\ g.memory_uses_va_surfaces = sharing
          /\ sharing => /\ g.memory_caps = << Stage("video/x-raw(memory:VAMemory)", <<>>) >>
                        /\ g.preprocessing_backend = VaSurfaceSharing
          /\ ~sharing => /\ g.memory_caps = << Stage("video/x-raw", <<>>) >>
                         /\ g.preprocessing_backend =
                              IF inference = GPU THEN <<"o", "p", "e", "n", "c", "v">>
                              ELSE <<>>
          /\ g.post_gpu_inference_conversion = (inference = GPU)
          /\ (DecodeDevice = PyStr(CPU) /\ inference = GPU) =>
               /\ g.memory_caps[1].text = "video/x-raw"
               /\ g.preprocessing_backend = <<"o", "p", "e", "n", "c", "v">>
               /\ g.post_gpu_inference_conversion
          /\ (DecodeDevice = PyStr(GPU) /\ inference = CPU) =>
               /\ g.memory_caps[1].text = "video/x-raw"
               /\ g.preprocessing_backend = <<>>
               /\ ~g.post_gpu_inference_conversion

\* C2 witness: decode on the CPU with inference on the GPU, the pair where the
\* decode device decides against surface sharing.
C2_Witness ==
  /\ gen # <<>>
  /\ DecodeDevice = PyStr(CPU)
  /\ get_target_device(gen[1].inference_model[1]) = GPU
  /\ gen[1].preprocessing_backend = <<"o", "p", "e", "n", "c", "v">>

\* ------------------------------------------------------------ calibration

CalibrationKeys ==
  {intrinsics_keys[i] : i \in 1..Len(intrinsics_keys)}
  \cup {dist_coeffs_keys[i] : i \in 1..Len(dist_coeffs_keys)}

DistortionKeys == {dist_coeffs_keys[i] : i \in 1..Len(dist_coeffs_keys)}

UndistortStage == Stage("cameraundistort settings=cameraundistort0", <<>>)

HasUndistort(descriptor) == \E i \in 1..Len(descriptor) : descriptor[i] = UndistortStage

\* C3: a generated pipeline holds the undistort stage only if the camera
\* settings hold all four intrinsics keys and all five distortion keys, all
\* nine values parse as numbers and the distortion coefficients are not all 0.
C3_UndistortOnlyIfValid ==
  (out # <<>> /\ HasUndistort(out[1])) =>
    /\ CalibrationKeys \subseteq DOMAIN camera_settings
    /\ \A k \in CalibrationKeys : Float(camera_settings[k]) # <<>>
    /\ \E k \in DistortionKeys : Float(camera_settings[k]) # <<0>>

\* The opt-out cases of C4: the flag set and a calibration key missing, a
\* distortion value that is no number, or distortion coefficients all 0.
OptOut(settings) ==
  /\ Truthy(DictGet(settings, "undistort", PyNone))
  /\ \/ ~(CalibrationKeys \subseteq DOMAIN settings)
     \/ \E k \in DistortionKeys \cap DOMAIN settings : Float(settings[k]) = <<>>
     \/ /\ DistortionKeys \subseteq DOMAIN settings
        /\ \A k \in DistortionKeys : Float(settings[k]) = <<0>>

\* The settings without the undistort flag.
FlagUnset(settings) == [k \in DOMAIN settings \ {"undistort"} |-> settings[k]]

\* C4: with the undistort flag set and the calibration incomplete, not numeric
\* or all zero, add_camera_undistort returns no stage, the constructor ends as
\* it does with the flag unset (it raises nothing of its own), and generate()
\* returns the descriptor it returns with the flag unset.
C4_OptOutIsNoError ==
  (Done /\ OptOut(camera_settings)) =>
    LET ref == PipelineGenerator(FlagUnset(camera_settings), model_config)
    IN /\ add_camera_undistort(camera_settings) = <<>>
       /\ err = ref.err
       /\ (gen # <<>>) = (ref.obj # <<>>)
       /\ gen # <<>> => gen[1].undistort = <<>>
       /\ out # <<>> =>
            out[1] = generate([ref.obj[1] EXCEPT !.sink = << out[1][Len(out[1])] >>]).ret

\* C4 witness: a descriptor generated from settings whose distortion
\* coefficients are all zero, with the flag set.
C4_Witness ==
  /\ out # <<>>
  /\ OptOut(camera_settings)
  /\ DistortionKeys \subseteq DOMAIN camera_settings
  /\ \A k \in DistortionKeys : Float(camera_settings[k]) = <<0>>

\* -------------------------------------------------------- model expression

HasEquals(text) == \E j \in 1..Len(text) : text[j] = "="

\* The text before the first '=' (all of it when there is none) and the text
\* after it.
BeforeEquals(text) ==
  IF HasEquals(text)
  THEN SubSeq(text, 1, (CHOOSE j \in 1..Len(text) :
                          text[j] = "=" /\ \A k \in 1..(j - 1) : text[k] # "=") - 1)
  ELSE text

AfterEquals(text) == SubSeq(text, Len(BeforeEquals(text)) + 2, Len(text))

\* The expression is well formed: a device segment, when there is one, is not
\* blank, and the trimmed name matches ^[A-Za-z][A-Za-z0-9_-]*$.
WellFormed(text) ==
  /\ HasEquals(text) => \E j \in 1..Len(AfterEquals(text)) : AfterEquals(text)[j] # " "
  /\ LET name == Strip(BeforeEquals(text))
     IN /\ name # <<>>
        /\ name[1] \in Letters
        /\ \A i \in 2..Len(name) : name[i] \in Letters \cup Digits \cup {"_", "-"}

\* The camerachain expression of the camera settings, when it is a string.
HasExpr == "camerachain" \in DOMAIN camera_settings

Expr == camera_settings["camerachain"].s

\* C5 as claimed: construction fails with ModelNotFound whenever the name of
\* the expression is empty after trimming or is not a key of the configuration,
\* and never with ModelNotFound when the name is non-empty and a key.
C5_ModelNotFound ==
  (Done /\ HasExpr) =>
    LET name == Strip(BeforeEquals(Expr))
    IN /\ (name = <<>> \/ name \notin DOMAIN model_config) => err = "ModelNotFound"
       /\ (name # <<>> /\ name \in DOMAIN model_config) => err # "ModelNotFound"

\* C5 amended: construction fails with ModelNotFound exactly when the
\* expression is well formed and its name is not a key of the configuration; a
\* name that is empty after trimming, like any name failing the pattern, fails
\* with MalformedExpression in _parse_model_expr, before the lookup.
C5_ModelNotFoundAmended ==
  (Done /\ HasExpr) =>
    LET name == Strip(BeforeEquals(Expr))
    IN /\ (err = "ModelNotFound") = (WellFormed(Expr) /\ name \notin DOMAIN model_config)
       /\ name = <<>> => err = "MalformedExpression"
       /\ (name # <<>> /\ name \in DOMAIN model_config) => err # "ModelNotFound"

\* C5 witnesses: a well-formed expression naming no entry has failed with
\* ModelNotFound.
C5_Witness ==
  /\ HasExpr
  /\ err = "ModelNotFound"
  /\ Expr = <<"z", "=", "G", "P", "U">>

\* ------------------------------------------------------- model parameters

ModelParams == gen[1].inference_model[1].params.model_params

\* The parameters of the configuration entry the expression names, with the
\* model and model_proc paths resolved.
EntryParams ==
  _resolve_paths(DictGet(model_config[gen[1].inference_model[1].model_name],
                         "params", <<>>))

KeySeq(d) == [i \in 1..Len(d) |-> d[i][1]]

DefaultKeys == <<"scheduling-policy", "batch-size", "inference-interval">>

DefaultValue(key) ==
  CASE key = "scheduling-policy" -> PyStr(<<"l", "a", "t", "e", "n", "c", "y">>)
    [] key = "batch-size" -> PyStr(<<"1">>)
    [] key = "inference-interval" -> PyStr(<<"1">>)

\* C6: the model_params of a resolved entry are the three defaults overlaid by
\* the entry: an entry key carries the entry's value, a default key the entry
\* lacks carries the default, there is no other key, the order is the three
\* default keys and then the entry-only keys in the entry's order, and an entry
\* without parameters gives exactly the defaults.  Read off the parameter map
\* before the two later writes (no device in the expression, no generate()).
C6_DefaultsOverlaid ==
  (gen # <<>> /\ gen[1].inference_model[1].device = <<>> /\ out = <<>>) =>
    LET mp == ModelParams
        entry == EntryParams
        defaults == {DefaultKeys[i] : i \in 1..3}
    IN /\ OKeys(mp) = defaults \cup OKeys(entry)
       /\ Len(mp) = Cardinality(OKeys(mp))
       /\ \A k \in OKeys(entry) : OGet(mp, k) = OGet(entry, k)
       /\ \A k \in defaults \ OKeys(entry) : OGet(mp, k) = DefaultValue(k)
       /\ SubSeq(KeySeq(mp), 1, 3) = DefaultKeys
       /\ SubSeq(KeySeq(mp), 4, Len(mp))
            = SelectSeq(KeySeq(entry), LAMBDA k : k \notin defaults)
       /\ entry = <<>> =>
            mp = << <<"scheduling-policy", PyStr(<<"l", "a", "t", "e", "n", "c", "y">>)>>,
                    <<"batch-size", PyStr(<<"1">>)>>,
                    <<"inference-interval", PyStr(<<"1">>)>> >>

\* C6 witness: an entry that collides with a default (batch-size) and brings
\* keys of its own has been resolved.
C6_Witness ==
  /\ gen # <<>> /\ gen[1].inference_model[1].device = <<>> /\ out = <<>>
  /\ "batch-size" \in OKeys(EntryParams)
  /\ Len(ModelParams) > 3
  /\ OGet(ModelParams, "batch-size") = PyNum(4)

\* ------------------------------------------------------------------ device

\* The inference model as the constructor leaves it for the camera settings.
BuiltModel == PipelineGenerator(camera_settings, model_config).obj[1].inference_model[1]

\* The device text of the expression, trimmed: <<>> when it names none.
ExprDevice ==
  IF HasEquals(Expr) THEN <<Strip(AfterEquals(Expr))>> ELSE <<>>

\* The entry's own device parameter: <<>> when it has none.
EntryDevice ==
  IF "device" \in OKeys(EntryParams) THEN <<OGet(EntryParams, "device")>> ELSE <<>>

\* A text as the stage descriptor writes it: in double quotes when it holds a
\* space, ';' or '!' or is empty.
Written(text) ==
  IF text = <<>> \/ \E i \in 1..Len(text) : text[i] \in {" ", ";", "!"}
  THEN <<"\"">> \o text \o <<"\"">>
  ELSE text

\* C7 as claimed: with an explicit device d in the expression the parameter map
\* has device = d and the serialized inference stage holds device=d exactly
\* once, whatever the entry configured; without one the device parameter is the
\* entry's (absent when it has none) and get_target_device() is CPU.
C7_DeviceOverride ==
  gen # <<>> =>
    LET m == gen[1].inference_model[1]
    IN /\ ExprDevice # <<>> =>
            /\ "device" \in OKeys(ModelParams)
            /\ OGet(ModelParams, "device") = PyStr(ExprDevice[1])
            /\ out # <<>> =>
                 ArgsNamed(InferenceStages(out[1])[1], "device")
                   = << <<"device", ExprDevice[1]>> >>
       /\ ExprDevice = <<>> =>
            /\ ("device" \in OKeys(ModelParams)) = (EntryDevice # <<>>)
            /\ EntryDevice # <<>> => OGet(ModelParams, "device") = EntryDevice[1]
            /\ get_target_device(m) = CPU

\* C7 amended: as C7, the serialized stage holding device=<d as _format_value
\* writes it> exactly once: d itself, or "d" in double quotes when d holds a
\* space, ';' or '!'.
C7_DeviceOverrideAmended ==
  gen # <<>> =>
    LET m == gen[1].inference_model[1]
    IN /\ ExprDevice # <<>> =>
            /\ "device" \in OKeys(ModelParams)
            /\ OGet(ModelParams, "device") = PyStr(ExprDevice[1])
            /\ out # <<>> =>
                 ArgsNamed(InferenceStages(out[1])[1], "device")
                   = << <<"device", Written(ExprDevice[1])>> >>
       /\ ExprDevice = <<>> =>
            /\ ("device" \in OKeys(ModelParams)) = (EntryDevice # <<>>)
            /\ EntryDevice # <<>> => OGet(ModelParams, "device") = EntryDevice[1]
            /\ get_target_device(m) = CPU

\* C7 witness: the expression's device has replaced a different device of the
\* entry, and the stage has been serialized.
C7_Witness ==
  /\ out # <<>>
  /\ ExprDevice = <<CPU>>
  /\ EntryDevice = <<PyStr(GPU)>>
  /\ ArgsNamed(InferenceStages(out[1])[1], "device") = << <<"device", CPU>> >>

\* ----------------------------------------------------------------- backend

\* C8: in every descriptor generate() returns, a non-empty backend chosen by
\* the device rules is the inference stage's one pre-process-backend value,
\* replacing the entry's; with an empty backend the stage has the entry's
\* pre-process-backend or none, and generate() leaves the parameter map as the
\* constructor built it.
C8_BackendApplied ==
  out # <<>> =>
    LET g == gen[1]
        stage == InferenceStages(out[1])[1]
    IN /\ g.preprocessing_backend # <<>> =>
            /\ ArgsNamed(stage, "pre-process-backend")
                 = << <<"pre-process-backend", g.preprocessing_backend>> >>
            /\ OGet(ModelParams, "pre-process-backend") = PyStr(g.preprocessing_backend)
       /\ g.preprocessing_backend = <<>> =>
            /\ ModelParams = BuiltModel.params.model_params
            /\ stage = serialize(BuiltModel)[1]
            /\ (ArgsNamed(stage, "pre-process-backend") # <<>>)
                 = ("pre-process-backend" \in OKeys(EntryParams))

\* C8 witness: a descriptor whose backend replaced the one the entry configured.
C8_Witness ==
  /\ out # <<>>
  /\ gen[1].preprocessing_backend = <<"o", "p", "e", "n", "c", "v">>
  /\ "pre-process-backend" \in OKeys(EntryParams)
  /\ OGet(EntryParams, "pre-process-backend") = PyStr(<<"i", "e">>)

\* ------------------------------------------------------------------ parsing

\* name, or name=device, from a parse result
Rejoin(r) ==
  IF r.device = <<>> THEN r.model_name ELSE r.model_name \o <<"=">> \o r.device[1]

\* C9: _parse_model_expr splits on the first '=' only and trims both parts: a
\* well-formed "name" parses to (name, no device) and "name=device" to (name,
\* trimmed device), a device keeping its own '='; joining the result with '='
\* gives the input with both parts trimmed, which parses to the same result;
\* and the parse fails, with MalformedExpression, exactly when a device segment
\* is there but blank or the trimmed name fails the name pattern.
C9_ParseFirstEquals ==
  parsed # <<>> =>
    LET r == parsed[1]
        name == Strip(BeforeEquals(model_expr))
        device == Strip(AfterEquals(model_expr))
    IN /\ r.err \in {"", "MalformedExpression"}
       /\ (r.err = "MalformedExpression") = ~WellFormed(model_expr)
       /\ r.err = "" =>
            /\ r.model_name = name
            /\ r.device = IF HasEquals(model_expr) THEN <<device>> ELSE <<>>
            /\ Rejoin(r) = IF HasEquals(model_expr) THEN name \o <<"=">> \o device
                           ELSE name
            /\ _parse_model_expr(Rejoin(r)) = r

\* C9 witness: an expression with surrounding blanks whose device holds an '='
\* of its own has been parsed.
C9_Witness ==
  /\ parsed # <<>>
  /\ model_expr = <<" ", "d", "=", "="  >>
  /\ parsed[1] = [err |-> "", model_name |-> <<"d">>, device |-> << <<"=">> >>]

\* ------------------------------------------------------------ decode device

\* The decode-device hint is unset: no cv_subsystem key, or the key with None.
HintUnset ==
  \/ "cv_subsystem" \notin DOMAIN camera_settings
  \/ camera_settings["cv_subsystem"] = PyNone

\* The constructor got as far as the device rules.
ReachedDeviceRules ==
  /\ Done
  /\ err \notin {"TypeError", "MalformedExpression", "ModelNotFound",
                 "UnsupportedModelType", "UnsupportedSourceScheme"}

\* C10: an unset decode-device hint (key missing, or present with no value)
\* decodes as AUTO with the single auto-negotiated stage; CPU gives the forced
\* software decoder and a color convert, GPU the hardware decoder and the
\* platform post-process; any other value fails the constructor with
\* UnsupportedDecodeDevice.
C10_DecodeDefaultsToAuto ==
  ReachedDeviceRules =>
    IF HintUnset \/ camera_settings["cv_subsystem"] = PyStr(AUTO)
    THEN gen # <<>> /\ gen[1].decode = << Stage("decodebin3", <<>>) >>
    ELSE IF camera_settings["cv_subsystem"] = PyStr(CPU)
    THEN gen # <<>> /\ gen[1].decode = << Stage("decodebin force-sw-decoders=true", <<>>),
                                          Stage("videoconvert", <<>>) >>
    ELSE IF camera_settings["cv_subsystem"] = PyStr(GPU)
    THEN gen # <<>> /\ gen[1].decode = << Stage("decodebin3", <<>>),
                                          Stage("vapostproc", <<>>) >>
    ELSE gen = <<>> /\ err = "UnsupportedDecodeDevice"

\* ------------------------------------------------------------------ source

Source == camera_settings["command"].s

RtspPrefix == <<"r", "t", "s", "p", ":", "/", "/">>

FilePrefix == <<"f", "i", "l", "e", ":", "/", "/">>

HttpPrefix == <<"h", "t", "t", "p", ":", "/", "/">>

HttpsPrefix == <<"h", "t", "t", "p", "s", ":", "/", "/">>

\* text begins with prefix
Begins(text, prefix) ==
  /\ Len(text) >= Len(prefix)
  /\ \A i \in 1..Len(prefix) : text[i] = prefix[i]

\* text without its first n characters
Drop(text, n) == [i \in 1..(Len(text) - n) |-> text[i + n]]

\* The paths that are the root joined with a remainder: the remainder under the
\* root, whether or not a '/' of the remainder's own is doubled or a final '/'
\* is kept.
UnderRoot(root, rest) ==
  IF rest = <<>> THEN {root, root \o <<"/">>}
  ELSE IF rest[1] = "/" THEN {root \o rest, root \o <<"/">> \o rest}
  ELSE {root \o <<"/">> \o rest}

\* C11: an rtsp:// source gives the RTSP source (its location, latency 200), the
\* depacketizer and the H.264 parser; a file://<p> source gives one looped
\* multi-file stage whose location is the video root joined with <p>, for every
\* <p>; an http:// or https:// source gives the HTTP source and the
\* multipart demultiplexer; any other source fails with UnsupportedSourceScheme
\* and gives no stages.
C11_SourceDispatch ==
  (Done /\ err \notin {"TypeError", "MalformedExpression", "ModelNotFound",
                       "UnsupportedModelType"}) =>
    IF Begins(Source, RtspPrefix)
    THEN /\ gen # <<>>
         /\ gen[1].input = << Stage("rtspsrc location={source} latency=200 name=source",
                                    << <<"source", Source>> >>),
                              Stage("rtph264depay", <<>>), Stage("h264parse", <<>>) >>
    ELSE IF Begins(Source, FilePrefix)
    THEN /\ gen # <<>>
         /\ \E location \in UnderRoot(video_path, Drop(Source, Len(FilePrefix))) :
              gen[1].input
                = << Stage("multifilesrc loop=TRUE location={filepath} name=source",
                           << <<"filepath", location>> >>) >>
    ELSE IF Begins(Source, HttpPrefix) \/ Begins(Source, HttpsPrefix)
    THEN /\ gen # <<>>
         /\ gen[1].input = << Stage("curlhttpsrc location={source} name=source",
                                    << <<"source", Source>> >>),
                              Stage("multipartdemux", <<>>) >>
    ELSE gen = <<>> /\ err = "UnsupportedSourceScheme"

\* ---------------------------------------------------------------- outcomes

ValidationErrors ==
  {"MalformedExpression", "ModelNotFound", "UnsupportedModelType",
   "UnsupportedDecodeDevice", "UnsupportedSourceScheme"}

HasStage(descriptor, texts) ==
  \E i \in 1..Len(descriptor) : descriptor[i].text \in texts

\* C12: a generation call either fails in the constructor with one of the five
\* validation errors and returns no descriptor, or constructs a generator whose
\* generate() returns a descriptor with every mandatory stage: source, decode,
\* memory marker, timestamp, inference, queue, metadata conversion, adapter,
\* sink.
C12_TwoOutcomes ==
  /\ err # "" => /\ err \in ValidationErrors
                 /\ gen = <<>>
                 /\ out = <<>>
  /\ out # <<>> =>
       /\ err = "" /\ gen # <<>>
       /\ HasStage(out[1], {"rtspsrc location={source} latency=200 name=source",
                            "multifilesrc loop=TRUE location={filepath} name=source",
                            "curlhttpsrc location={source} name=source"})
       /\ HasStage(out[1], {"decodebin force-sw-decoders=true", "decodebin3"})
       /\ HasStage(out[1], {"video/x-raw", "video/x-raw(memory:VAMemory)"})
       /\ HasStage(out[1], {gen[1].timestamp[1].text})
       /\ HasStage(out[1], {"gvadetect", "gvaclassify"})
       /\ HasStage(out[1], {"queue"})
       /\ HasStage(out[1], {"gvametaconvert add-tensor-data=true name=metaconvert"})
       /\ HasStage(out[1], {gen[1].adapter[3].text})
       /\ out[1][Len(out[1])].text \in {"appsink sync=true"} \cup Sinks

\* The descriptor the constructed generator returns when no sink was overridden.
WithoutOverride ==
  generate(PipelineGenerator(camera_settings, model_config).obj[1]).ret

\* A descriptor with its last stage replaced.
ReplaceLast(descriptor, stage) ==
  SubSeq(descriptor, 1, Len(descriptor) - 1) \o <<stage>>

\* The fields of the generator other than the sink.
FrameOfSink == DOMAIN NewGenerator \ {"sink"}

\* C13: override_sink replaces only the sink.  Whenever generate() has just
\* returned after at least one override_sink call, the descriptor is the one
\* generated without any override with its last stage replaced by the argument
\* of the most recent override_sink call; and every override_sink step leaves
\* the returned descriptor and every field of the generator but the sink
\* (source, decode, memory capability, undistort, timestamp, adapter, metadata
\* conversion, inference model) as they were, on the same generator object.
C13_OverrideSinkOnly ==
  /\ [](history.op = "generate" /\ history.sink_arg # <<>> =>
          out = << ReplaceLast(WithoutOverride,
                               Stage(history.sink_arg[1], <<>>)) >>)
  /\ [](history.op = "generate" /\ history.sink_arg = <<>> =>
          out = <<WithoutOverride>>)
  /\ [][history'.op = "override_sink" =>
          /\ gen # <<>> /\ gen' # <<>>
          /\ \A f \in FrameOfSink : gen'[1][f] = gen[1][f]
          /\ gen'[1].sink = << Stage(history'.sink_arg[1], <<>>) >>
          /\ out' = out]_vars

\* generate() has returned after the sink was overridden, and a generate()
\* before that override had returned the default sink's descriptor.
C13_Witness ==
  /\ history = [op |-> "generate", sink_arg |-> <<"fakesink">>]
  /\ out # <<>>
  /\ out[1][Len(out[1])] = Stage("fakesink", <<>>)
  /\ WithoutOverride[Len(WithoutOverride)] = Stage("appsink sync=true", <<>>)
  /\ Len(out[1]) = Len(WithoutOverride)
  /\ gen[1].undistort # <<>>
  /\ gen[1].inference_model[1].writes.backend = 2

\* The numbers of assignments made to the parameter map since it was built.
Writes == gen[1].inference_model[1].writes

\* The parameter map as _load_params built it for the generator's model.
LoadedParams ==
  _load_params(gen[1].inference_model[1].model_name, model_config).params[1].model_params

\* The parameter map after the device override of the constructor.
AfterDeviceWrite ==
  IF ExprDevice # <<>> THEN OSet(LoadedParams, "device", PyStr(ExprDevice[1]))
  ELSE LoadedParams

\* The parameter map after the backend override of generate().
AfterBackendWrite ==
  IF gen[1].preprocessing_backend # <<>>
  THEN OSet(AfterDeviceWrite, "pre-process-backend",
            PyStr(gen[1].preprocessing_backend))
  ELSE AfterDeviceWrite

\* C14 as claimed: over the lifetime of one generator the parameter map is
\* written at most once for the device override and at most once for the
\* backend override, whatever generate() and override_sink() calls are made.
C14_AtMostTwoWrites ==
  gen # <<>> => Writes.device <= 1 /\ Writes.backend <= 1

\* C14 amended: the device override is written once, by the constructor,
\* exactly when the expression names a device; the backend override is written
\* once by every generate() call of a generator whose backend is not empty,
\* each time the same value under the same key, so the content of the map
\* changes at most twice (device, first backend write) and is at every moment
\* the built map with those overrides; override_sink() writes nothing.
C14_WritesPerGenerate ==
  /\ [](gen # <<>> =>
          /\ Writes.device = (IF ExprDevice # <<>> THEN 1 ELSE 0)
          /\ Writes.backend > 0 => gen[1].preprocessing_backend # <<>>
          /\ ModelParams = (IF Writes.backend = 0 THEN AfterDeviceWrite
                            ELSE AfterBackendWrite))
  /\ [][gen # <<>> =>
          /\ Writes'.device = Writes.device
          /\ Writes'.backend =
               (IF history'.op = "generate" /\ gen[1].preprocessing_backend # <<>>
                THEN Writes.backend + 1 ELSE Writes.backend)
          /\ Writes.backend >= 1 => ModelParams' = ModelParams
          /\ history'.op = "override_sink" => ModelParams' = ModelParams]_vars

\* A generator whose expression names a device has returned from its second
\* generate() with a backend: one device write and two backend writes.
C14_Witness ==
  /\ gen # <<>>
  /\ ExprDevice # <<>>
  /\ Writes = [device |-> 1, backend |-> 2]
  /\ history.op = "generate"
  /\ ModelParams = AfterBackendWrite
  /\ AfterBackendWrite # AfterDeviceWrite

\* What a call with these settings does when no other call runs: the error
\* of the constructor, or the generator and the descriptor it returns.
Alone(settings) ==
  LET r == PipelineGenerator(settings, model_config)
  IN [err |-> r.err,
      built |-> r.obj,
      done |-> IF r.obj = <<>> THEN <<>> ELSE <<generate(r.obj[1])>>]

\* C15: calls that share the model configuration do not interfere.  In every
\* state of every interleaving, the configuration mapping and the class-level
\* default parameter set are as they were before the calls; a call that has
\* returned holds the descriptor it returns when run alone, a call that raised
\* holds the error it raises alone; and the parameter map of each call is the
\* one it has alone, so no device or backend override of another call shows
\* in it.
C15_NoInterference ==
  /\ model_config = (CHOOSE m \in ModelConfigs : TRUE)
  /\ default_params = DEFAULT_PARAMS
  /\ \A i \in 1..Len(calls) :
       LET alone == Alone(calls[i].settings)
       IN /\ calls[i].pc = "failed" =>
               calls[i].err = alone.err /\ alone.err # "" /\ calls[i].ret = <<>>
          /\ calls[i].pc = "built" =>
               GeneratorOf(i) = alone.built[1] /\ calls[i].ret = <<>>
          /\ calls[i].pc = "done" =>
               /\ calls[i].ret = <<alone.done[1].ret>>
               /\ GeneratorOf(i) = alone.done[1].self

\* Two calls with different expressions have both returned: one overrode the
\* device and the backend, the other did neither and uses the entry's device.
C15_Witness ==
  /\ Len(calls) >= 2
  /\ calls[1].pc = "done" /\ calls[2].pc = "done"
  /\ calls[1].gen[1].inference_model[1].writes = [device |-> 1, backend |-> 1]
  /\ calls[2].gen[1].inference_model[1].writes = [device |-> 0, backend |-> 0]
  /\ calls[1].gen[1].inference_model[1].model_name # calls[2].gen[1].inference_model[1].model_name
  /\ calls[1].ret # calls[2].ret

\* The device parameter of the inference stage of the returned descriptor as
\* the stage states it: CPU when the stage has no device parameter.
StageDevice ==
  LET devices == ArgsNamed(InferenceStages(out[1])[1], "device")
  IN IF devices = <<>> THEN CPU ELSE devices[1][2]

\* The inference device _apply_device_rule_set decided on.
RuleDevice == get_target_device(gen[1].inference_model[1])

\* The two conversion stages stand next to each other in the descriptor.
HasConversion ==
  \E i \in 1..(Len(out[1]) - 1) : SubSeq(out[1], i, i + 1) = ConversionStages

\* C16: in every generated pipeline the device parameter of the inference
\* stage (CPU when it has none) is the inference device the device rules were
\* decided on, so the post-inference conversion stages and a non-empty
\* preprocessing backend are present exactly when the stage's device is GPU,
\* whether or not the expression and the config entry name a device.
C16_RuleDeviceIsStageDevice ==
  out # <<>> =>
    /\ StageDevice = Written(RuleDevice)
    /\ HasConversion <=> StageDevice = GPU
    /\ gen[1].preprocessing_backend # <<>> <=> StageDevice = GPU
====
